---- MODULE Spec2Model ----
(***************************************************************************)
(* The filter / aggregate / pivot pipeline of the SHAP dashboard           *)
(* (streamlit_app/main.py, pages/shap_values_heatmap.py,                   *)
(* pages/feature_comparison.py).  Every widget interaction reruns the      *)
(* page's script from top to bottom; one action below is one such rerun.   *)
(***************************************************************************)
EXTENDS Integers, Sequences, FiniteSets, TLC

VARIABLES
    page,               \* the page whose script ran last
    csv,                \* contents of the data files (read-only environment)
    data_source,        \* st.radio "Select Data Source"
    aggregation_method, \* "mean" / "sum", set with file_path
    df,                 \* load_data(file_path)
    selected,           \* the five sidebar multiselects, column -> set of values
    filtered_df,        \* df[mask]
    bar_x_axis,         \* main.py selectboxes
    bar_row_partition,
    bar_col_partition,
    groupby_columns,
    bar_data,
    observed,           \* pivot_table's default for `observed` (pandas < 3: FALSE, >= 3: TRUE)
    pivot_df,
    row_labels,
    col_labels,
    row_colors,
    xaxis,              \* fig.update_layout(xaxis=dict(ticktext=..., tickvals=...))
    show_scaled,        \* feature_comparison.py checkbox
    df_all_test,        \* feature_comparison.py: load_data()
    grouped_df,
    row_permutation,    \* hierarchical variant of the heatmap: leaf order of the rows
    col_permutation,    \* ... and of the columns (positions from 0)
    reordered_matrix,   \* ... and the matrix with both orders applied
    status              \* "ok", or "error" when the script raised

vars == <<page, csv, data_source, aggregation_method, df, selected, filtered_df,
          bar_x_axis, bar_row_partition, bar_col_partition, groupby_columns,
          bar_data, observed, pivot_df, row_labels, col_labels, row_colors,
          xaxis, show_scaled, df_all_test, grouped_df, row_permutation,
          col_permutation, reordered_matrix, status>>

(***************************************************************************)
(* Bounds of the model.                                                    *)
(***************************************************************************)
MaxRows == 2

\* the matrices handed to the hierarchical reorder: at most MaxDim rows and
\* columns, cells 0..MaxCell
MaxDim == 3
MaxCell == 1

(***************************************************************************)
(* Static tables of the source.                                            *)
(***************************************************************************)
FREQUENCY_ORDER == <<"delta", "theta", "alpha", "beta", "lower gamma">>
TIME_PERIOD_ORDER == <<"pre-stimulus", "early", "late">>
CLUSTER_ORDER == <<"CL1", "CL4", "CL2", "CL5", "CL3", "CL6">>

time_colors ==
    [t \in {"pre-stimulus", "early", "late"} |->
        CASE t = "pre-stimulus" -> "rgb(70, 130, 180)"
          [] t = "early" -> "rgb(60, 179, 113)"
          [] t = "late" -> "rgb(238, 130, 238)"]

ticktext == <<"Left Frontal (CL1)", "Right Frontal (CL4)",
              "Left Central (CL2)", "Right Central (CL5)",
              "Left Posterior (CL3)", "Right Posterior (CL6)">>

DATA_SOURCES == <<"Averaged SHAP Values", "Summed SHAP Values">>
BAR_X_OPTIONS == <<"Cluster", "Frequency", "Time Period">>
PARTITION_OPTIONS == <<"None", "Stimulus", "TargetScore", "Cluster", "Frequency", "Time Period">>
FILTER_COLUMNS == <<"Cluster", "Time Period", "Frequency", "Stimulus", "TargetScore">>

None == "None"

(***************************************************************************)
(* Sequences.                                                              *)
(***************************************************************************)
Range(s) == {s[i] : i \in 1..Len(s)}

RECURSIVE SeqSum(_)
\* left-to-right accumulation of a sequence of integers
SeqSum(s) == IF s = <<>> THEN 0 ELSE SeqSum(SubSeq(s, 1, Len(s) - 1)) + s[Len(s)]

RECURSIVE SeqOfSet(_, _)
\* the elements of `order` that are in S, in the order of `order`
SeqOfSet(order, S) ==
    IF order = <<>> THEN <<>>
    ELSE (IF Head(order) \in S THEN <<Head(order)>> ELSE <<>>) \o SeqOfSet(Tail(order), S)

(***************************************************************************)
(* Numbers: a cell is NaN or the rational num/den in lowest terms          *)
(* (pandas holds floats; the values of the model are exact).               *)
(***************************************************************************)
RECURSIVE Gcd(_, _)
Gcd(a, b) == IF b = 0 THEN a ELSE Gcd(b, a % b)

Abs(a) == IF a < 0 THEN -a ELSE a

Q(n, d) ==
    LET s == IF d < 0 THEN -1 ELSE 1
        g == Gcd(Abs(n), Abs(d))
    IN  [nan |-> FALSE, num |-> (s * n) \div g, den |-> (s * d) \div g]

NaN == [nan |-> TRUE, num |-> 0, den |-> 1]

(***************************************************************************)
(* Data frames: a sequence of rows, each a function from column name to    *)
(* value, with the row's index label under "index".                        *)
(***************************************************************************)
ShapRecord(c, t, f, s, g, v) ==
    ("Cluster" :> c) @@ ("Time Period" :> t) @@ ("Frequency" :> f) @@
    ("Stimulus" :> s) @@ ("TargetScore" :> g) @@ ("SHAP_value" :> v)

\* pd.read_csv: the records of the file under a RangeIndex 0..n-1
read_csv(records) == [i \in 1..Len(records) |-> records[i] @@ ("index" :> i - 1)]

Files(domain) == UNION {[1..n -> domain] : n \in 0..MaxRows}

Index(frame) == [i \in 1..Len(frame) |-> frame[i]["index"]]

Column(frame, col) == [i \in 1..Len(frame) |-> frame[i][col]]

RECURSIVE unique(_)
\* Series.unique(): the distinct values in order of first appearance
unique(series) ==
    IF series = <<>> THEN <<>>
    ELSE LET init == unique(SubSeq(series, 1, Len(series) - 1))
             last == series[Len(series)]
         IN  IF last \in Range(init) THEN init ELSE Append(init, last)

\* Series.isin(values): the boolean mask
isin(series, values) == [i \in 1..Len(series) |-> series[i] \in values]

RECURSIVE BooleanIndex_reversed(_, _)
\* the selected rows, last first
BooleanIndex_reversed(frame, mask) ==
    IF frame = <<>> THEN <<>>
    ELSE BooleanIndex_reversed(Tail(frame), Tail(mask))
         \o (IF Head(mask) THEN <<Head(frame)>> ELSE <<>>)

RECURSIVE BooleanIndex(_, _)
\* frame[mask]: the rows whose mask is set, in frame order, index labels kept
BooleanIndex(frame, mask) ==
    IF frame = <<>> THEN <<>>
    ELSE (IF Head(mask) THEN <<Head(frame)>> ELSE <<>>)
         \o BooleanIndex(Tail(frame), Tail(mask))

\* the default of every multiselect: df[col].unique()
DefaultSelection(frame) ==
    [col \in Range(FILTER_COLUMNS) |-> Range(unique(Column(frame, col)))]

\* the mask with one `&` written `|`
Filter_or(frame, sel) ==
    LET mask == [i \in 1..Len(frame) |->
                    /\ \/ isin(Column(frame, "Cluster"), sel["Cluster"])[i]
                       \/ isin(Column(frame, "Time Period"), sel["Time Period"])[i]
                    /\ isin(Column(frame, "Frequency"), sel["Frequency"])[i]
                    /\ isin(Column(frame, "Stimulus"), sel["Stimulus"])[i]
                    /\ isin(Column(frame, "TargetScore"), sel["TargetScore"])[i]]
    IN  BooleanIndex(frame, mask)

\* filtered_df = df[(isin) & (isin) & (isin) & (isin) & (isin)]
Filter(frame, sel) ==
    LET mask == [i \in 1..Len(frame) |->
                    /\ isin(Column(frame, "Cluster"), sel["Cluster"])[i]
                    /\ isin(Column(frame, "Time Period"), sel["Time Period"])[i]
                    /\ isin(Column(frame, "Frequency"), sel["Frequency"])[i]
                    /\ isin(Column(frame, "Stimulus"), sel["Stimulus"])[i]
                    /\ isin(Column(frame, "TargetScore"), sel["TargetScore"])[i]]
    IN  BooleanIndex(frame, mask)

(***************************************************************************)
(* Group-by and reduction.                                                 *)
(***************************************************************************)
\* Python's order on the strings of the model (what groupby(sort=True) sorts by)
STRING_ORDER == <<"CL1", "CL2", "CL4", "CL7", "S1", "S2", "T1", "T2", "alpha",
                  "early", "f1", "f2", "late", "mu", "post", "pre-stimulus", "theta">>

Rank(v) == CHOOSE i \in 1..Len(STRING_ORDER) : STRING_ORDER[i] = v

RECURSIVE KeyLess(_, _)
\* lexicographic order on key tuples of equal length
KeyLess(a, b) ==
    /\ a # <<>>
    /\ \/ Rank(Head(a)) < Rank(Head(b))
       \/ Head(a) = Head(b) /\ KeyLess(Tail(a), Tail(b))

RECURSIVE SortKeys(_)
SortKeys(S) ==
    IF S = {} THEN <<>>
    ELSE LET least == CHOOSE k \in S : \A other \in S \ {k} : KeyLess(k, other)
         IN  <<least>> \o SortKeys(S \ {least})

KeyOf(row, cols) == [j \in 1..Len(cols) |-> row[cols[j]]]

\* the values of column `value` in the rows of the group `key`, in frame order
GroupValues(frame, cols, key, value) ==
    Column(BooleanIndex(frame, [i \in 1..Len(frame) |-> KeyOf(frame[i], cols) = key]), value)

\* a sum that needs at least one value (min_count=1)
agg_min_count(method, values) ==
    IF values = <<>> THEN NaN
    ELSE IF method = "sum" THEN Q(SeqSum(values), 1) ELSE Q(SeqSum(values), Len(values))

\* the reduction of one group: "sum" of no value is 0, "mean" of no value is NaN
agg(method, values) ==
    IF method = "sum" THEN Q(SeqSum(values), 1)
    ELSE IF values = <<>> THEN NaN ELSE Q(SeqSum(values), Len(values))

HasDuplicates(s) == \E i, j \in 1..Len(s) : i < j /\ s[i] = s[j]

\* frame.groupby(cols).agg({value: method}) over object columns: one entry per
\* key that occurs, keys sorted
groupby_agg(frame, cols, values, method) ==
    LET keys == SortKeys({KeyOf(frame[i], cols) : i \in 1..Len(frame)})
    IN  [n \in 1..Len(keys) |->
            [key |-> keys[n],
             val |-> [v \in values |-> agg(method, GroupValues(frame, cols, keys[n], v))]]]

\* .reset_index() / as_index=False: the key levels become columns again
reset_index(grouped, cols, values) ==
    [n \in 1..Len(grouped) |->
        [c \in Range(cols) \cup values \cup {"index"} |->
            IF c = "index" THEN n - 1
            ELSE IF c \in values THEN grouped[n].val[c]
            ELSE grouped[n].key[CHOOSE j \in 1..Len(cols) : cols[j] = c]]]

(***************************************************************************)
(* main.py                                                                 *)
(***************************************************************************)
file_path(source) ==
    IF source = "Averaged SHAP Values" THEN "DATA_FILE_SHAP_MEAN" ELSE "DATA_FILE_SHAP_SUM"

method_of(source) ==
    IF source = "Averaged SHAP Values" THEN "mean" ELSE "sum"

load_data(files, path) == read_csv(files[path])

build_groupby_columns(x, row_partition, col_partition) ==
    <<x>> \o (IF row_partition # None THEN <<row_partition>> ELSE <<>>)
          \o (IF col_partition # None THEN <<col_partition>> ELSE <<>>)

\* bar_data = filtered_df.groupby(groupby_columns).agg({"SHAP_value": "sum"}).reset_index()
\* reset_index raises ValueError ("cannot insert ..., already exists") when a
\* column is named twice in groupby_columns
bar_aggregate(frame, cols) ==
    IF HasDuplicates(cols)
    THEN [status |-> "error", data |-> <<>>]
    ELSE [status |-> "ok",
          data |-> reset_index(groupby_agg(frame, cols, {"SHAP_value"}, "sum"),
                               cols, {"SHAP_value"})]

EmptyPivot == [index |-> <<>>, columns |-> <<>>, values |-> <<>>]

Unset ==
    [aggregation_method |-> None, df |-> <<>>, filtered_df |-> <<>>,
     groupby_columns |-> <<>>, bar_data |-> <<>>, pivot_df |-> EmptyPivot,
     row_labels |-> <<>>, col_labels |-> <<>>, row_colors |-> <<>>,
     xaxis |-> [ticktext |-> <<>>, tickvals |-> <<>>],
     df_all_test |-> <<>>, grouped_df |-> <<>>, row_permutation |-> <<>>,
     col_permutation |-> <<>>, reordered_matrix |-> <<>>, status |-> "ok"]

main_script(files, source, sel, x, row_partition, col_partition) ==
    LET frame == load_data(files, file_path(source))
        filtered == Filter(frame, sel)
        cols == build_groupby_columns(x, row_partition, col_partition)
        bar == bar_aggregate(filtered, cols)
    IN  [Unset EXCEPT !.aggregation_method = method_of(source),
                      !.df = frame,
                      !.filtered_df = filtered,
                      !.groupby_columns = cols,
                      !.bar_data = bar.data,
                      !.status = bar.status]

(***************************************************************************)
(* pages/shap_values_heatmap.py                                            *)
(***************************************************************************)
NaNCategory == "nan"

\* the code -1 of a value outside the categories read as an index from the end
Categorical_wrap(series, categories) ==
    [i \in 1..Len(series) |->
        IF series[i] \in Range(categories) THEN series[i] ELSE categories[Len(categories)]]

\* pd.Categorical(series, categories=..., ordered=True): a value outside the
\* categories becomes NaN
Categorical(series, categories) ==
    [i \in 1..Len(series) |->
        IF series[i] \in Range(categories) THEN series[i] ELSE NaNCategory]

SetColumn(frame, col, series) ==
    [i \in 1..Len(frame) |-> [frame[i] EXCEPT ![col] = series[i]]]

WithCategories(frame) ==
    LET a == SetColumn(frame, "Time Period",
                       Categorical(Column(frame, "Time Period"), TIME_PERIOD_ORDER))
        b == SetColumn(a, "Frequency", Categorical(Column(a, "Frequency"), FREQUENCY_ORDER))
    IN  SetColumn(b, "Cluster", Categorical(Column(b, "Cluster"), CLUSTER_ORDER))

\* the (Time Period, Frequency) pairs in the order of the category codes
RowOrder ==
    [n \in 1..(Len(TIME_PERIOD_ORDER) * Len(FREQUENCY_ORDER)) |->
        <<TIME_PERIOD_ORDER[((n - 1) \div Len(FREQUENCY_ORDER)) + 1],
          FREQUENCY_ORDER[((n - 1) % Len(FREQUENCY_ORDER)) + 1]>>]

PIVOT_KEYS == <<"Time Period", "Frequency", "Cluster">>

fill_value == Q(0, 1)

\* DataFrame.pivot_table(index=["Time Period", "Frequency"], columns="Cluster",
\*                       values="SHAP_value", aggfunc=method, fill_value=fill):
\* groupby(keys, observed=obs, dropna=True).agg(method), dropna(how="all"),
\* unstack(fill_value), fillna(fill_value)
pivot_table_fill(data, method, obs, fill) ==
    LET valid == BooleanIndex(data,
                    [i \in 1..Len(data) |->
                        \A j \in 1..Len(PIVOT_KEYS) : data[i][PIVOT_KEYS[j]] # NaNCategory])
        \* the groups: the keys that occur, or with observed=False every
        \* combination of the three columns' categories
        present == {KeyOf(valid[i], PIVOT_KEYS) : i \in 1..Len(valid)}
        groups == IF obs THEN present
                  ELSE {<<rk[1], rk[2], c>> : rk \in Range(RowOrder), c \in Range(CLUSTER_ORDER)}
        agged == [k \in groups |->
                    agg(method, GroupValues(valid, PIVOT_KEYS, k, "SHAP_value"))]
        \* dropna(how="all"): a group reduced to NaN is dropped
        kept == {k \in groups : ~agged[k].nan}
        \* unstack: the row keys and the column keys that are left, in code order
        index == SeqOfSet(RowOrder, {<<k[1], k[2]>> : k \in kept})
        columns == SeqOfSet(CLUSTER_ORDER, {k[3] : k \in kept})
    IN  [index |-> index,
         columns |-> columns,
         values |-> [i \in 1..Len(index) |-> [j \in 1..Len(columns) |->
                        LET k == <<index[i][1], index[i][2], columns[j]>>
                        IN  IF k \in kept THEN agged[k] ELSE fill]]]

pivot_table_unfilled(data, method, obs) == pivot_table_fill(data, method, obs, NaN)

pivot_table(data, method, obs) == pivot_table_fill(data, method, obs, fill_value)

\* .sort_index(): the rows in the order of the index's category codes
sort_index(pivot) ==
    LET pos(rk) == CHOOSE i \in 1..Len(pivot.index) : pivot.index[i] = rk
        sorted == SeqOfSet(RowOrder, Range(pivot.index))
    IN  [pivot EXCEPT !.index = sorted,
                      !.values = [i \in 1..Len(sorted) |-> pivot.values[pos(sorted[i])]]]

heatmap_script(files, source, sel, obs) ==
    LET frame == load_data(files, file_path(source))
        filtered == WithCategories(Filter(frame, sel))
        pivot == sort_index(pivot_table(filtered, method_of(source), obs))
        row_time_periods == [i \in 1..Len(pivot.index) |-> pivot.index[i][1]]
        known == \A i \in 1..Len(row_time_periods) : row_time_periods[i] \in DOMAIN time_colors
    IN  [Unset EXCEPT !.aggregation_method = method_of(source),
                      !.df = frame,
                      !.filtered_df = filtered,
                      !.pivot_df = pivot,
                      !.row_labels = [i \in 1..Len(pivot.index) |->
                                        pivot.index[i][1] \o ", " \o pivot.index[i][2]],
                      !.col_labels = pivot.columns,
                      !.row_colors = IF known
                                     THEN [i \in 1..Len(row_time_periods) |->
                                            time_colors[row_time_periods[i]]]
                                     ELSE <<>>,
                      !.xaxis = IF known
                                THEN [ticktext |-> ticktext, tickvals |-> pivot.columns]
                                ELSE Unset.xaxis,
                      !.status = IF known THEN "ok" ELSE "error"]

(***************************************************************************)
(* pages/feature_comparison.py                                             *)
(***************************************************************************)
CoefRecord(feature, c, t, f, s, g, coef, v) ==
    ShapRecord(c, t, f, s, g, v) @@ ("features" :> feature) @@ ("params_significant" :> coef)

QLess(a, b) == a.num * b.den < b.num * a.den
QSub(a, b) == Q(a.num * b.den - b.num * a.den, a.den * b.den)
QMul(a, b) == Q(a.num * b.num, a.den * b.den)
QDiv(a, b) == Q(a.num * b.den, a.den * b.num)

\* MinMaxScaler(feature_range=(-1, 1)).fit_transform on one column:
\* X * scale_ + min_, scale_ = 2 / (max - min), a zero range taken as 1
min_max_scale(series) ==
    LET lo == CHOOSE x \in Range(series) : \A y \in Range(series) : ~QLess(y, x)
        hi == CHOOSE x \in Range(series) : \A y \in Range(series) : ~QLess(x, y)
        span == IF QSub(hi, lo) = Q(0, 1) THEN Q(1, 1) ELSE QSub(hi, lo)
    IN  [i \in 1..Len(series) |->
            QSub(QMul(QDiv(QSub(series[i], lo), span), Q(2, 1)), Q(1, 1))]

FEATURE_KEYS == <<"features", "Stimulus", "TargetScore">>
FEATURE_VALUES == {"params_significant", "SHAP_value"}

\* the scaler raises ValueError on a frame of 0 rows
fit_transform(frame) ==
    IF frame = <<>>
    THEN [status |-> "error", data |-> frame]
    ELSE [status |-> "ok",
          data |-> SetColumn(SetColumn(frame, "params_significant",
                                       min_max_scale(Column(frame, "params_significant"))),
                             "SHAP_value", min_max_scale(Column(frame, "SHAP_value")))]

feature_script(files, sel, scaled) ==
    LET frame == load_data(files, "DATA_FILE_COEF")
        filtered == Filter(frame, sel)
        grouped == reset_index(groupby_agg(filtered, FEATURE_KEYS, FEATURE_VALUES, "mean"),
                               FEATURE_KEYS, FEATURE_VALUES)
        fitted == IF scaled THEN fit_transform(grouped) ELSE [status |-> "ok", data |-> grouped]
    IN  [Unset EXCEPT !.df_all_test = frame,
                      !.filtered_df = filtered,
                      !.grouped_df = fitted.data,
                      !.status = fitted.status]

(***************************************************************************)
(* One run of a page's script.                                             *)
(***************************************************************************)
Script(p, files, source, sel, x, row_partition, col_partition, obs, scaled) ==
    CASE p = "main" -> main_script(files, source, sel, x, row_partition, col_partition)
      [] p = "heatmap" -> heatmap_script(files, source, sel, obs)
      [] p = "feature" -> feature_script(files, sel, scaled)

\* the frame a page loads
PageFrame(p, files, source) ==
    IF p = "feature" THEN load_data(files, "DATA_FILE_COEF")
    ELSE load_data(files, file_path(source))

\* the widgets of a page as they are on the page's first run
DefaultSource(p) == IF p = "feature" THEN None ELSE DATA_SOURCES[1]
DefaultXAxis(p) == IF p = "main" THEN BAR_X_OPTIONS[1] ELSE None
DefaultScaled(p) == p = "feature"

\* the script ran and left these values
Ran(o, am, d, fd, gc, bd, pv, rl, cl, rc, xa, dat, gd, rp, cp, hm, st) ==
    /\ am = o.aggregation_method
    /\ d = o.df
    /\ fd = o.filtered_df
    /\ gc = o.groupby_columns
    /\ bd = o.bar_data
    /\ pv = o.pivot_df
    /\ rl = o.row_labels
    /\ cl = o.col_labels
    /\ rc = o.row_colors
    /\ xa = o.xaxis
    /\ dat = o.df_all_test
    /\ gd = o.grouped_df
    /\ rp = o.row_permutation
    /\ cp = o.col_permutation
    /\ hm = o.reordered_matrix
    /\ st = o.status

\* a session opens page p: every widget at its default, the script run once
FirstRun(p, files, obs) ==
    /\ page = p
    /\ csv = files
    /\ observed = obs
    /\ data_source = DefaultSource(p)
    /\ selected = DefaultSelection(PageFrame(p, files, DefaultSource(p)))
    /\ bar_x_axis = DefaultXAxis(p)
    /\ bar_row_partition = None
    /\ bar_col_partition = None
    /\ show_scaled = DefaultScaled(p)
    /\ \E o \in {Script(p, files, data_source, selected, bar_x_axis, bar_row_partition,
                         bar_col_partition, obs, show_scaled)} :
           Ran(o, aggregation_method, df, filtered_df, groupby_columns, bar_data, pivot_df,
               row_labels, col_labels, row_colors, xaxis, df_all_test, grouped_df,
               row_permutation, col_permutation, reordered_matrix, status)

\* the rerun that follows a widget change (the widgets' new values are primed)
Rerun ==
    \E p \in {page'}, files \in {csv'}, source \in {data_source'}, sel \in {selected'},
       x \in {bar_x_axis'}, row_partition \in {bar_row_partition'},
       col_partition \in {bar_col_partition'}, obs \in {observed'}, scaled \in {show_scaled'} :
      \E o \in {Script(p, files, source, sel, x, row_partition, col_partition, obs, scaled)} :
        Ran(o, aggregation_method', df', filtered_df', groupby_columns', bar_data', pivot_df',
            row_labels', col_labels', row_colors', xaxis', df_all_test', grouped_df',
            row_permutation', col_permutation', reordered_matrix', status')

SelectDataSource(source) ==
    /\ page \in {"main", "heatmap"}
    /\ source # data_source
    /\ data_source' = source
    /\ UNCHANGED <<page, csv, observed, selected, bar_x_axis, bar_row_partition,
                   bar_col_partition, show_scaled>>
    /\ Rerun

\* a sidebar multiselect: any subset of its options, df[col].unique()
MultiSelect(col, choice) ==
    /\ choice \subseteq Range(unique(Column(PageFrame(page, csv, data_source), col)))
    /\ choice # selected[col]
    /\ selected' = [selected EXCEPT ![col] = choice]
    /\ UNCHANGED <<page, csv, observed, data_source, bar_x_axis, bar_row_partition,
                   bar_col_partition, show_scaled>>
    /\ Rerun

Options(col) == SUBSET Range(unique(Column(PageFrame(page, csv, data_source), col)))

SelectClusters == \E choice \in Options("Cluster") : MultiSelect("Cluster", choice)
SelectTimePeriods == \E choice \in Options("Time Period") : MultiSelect("Time Period", choice)
SelectFrequencies == \E choice \in Options("Frequency") : MultiSelect("Frequency", choice)
SelectStimuli == \E choice \in Options("Stimulus") : MultiSelect("Stimulus", choice)
SelectScores == \E choice \in Options("TargetScore") : MultiSelect("TargetScore", choice)

SelectBarXAxis ==
    \E x \in Range(BAR_X_OPTIONS) :
        /\ page = "main"
        /\ x # bar_x_axis
        /\ bar_x_axis' = x
        /\ UNCHANGED <<page, csv, observed, data_source, selected, bar_row_partition,
                       bar_col_partition, show_scaled>>
        /\ Rerun

SelectBarRowPartition ==
    \E v \in Range(PARTITION_OPTIONS) :
        /\ page = "main"
        /\ v # bar_row_partition
        /\ bar_row_partition' = v
        /\ UNCHANGED <<page, csv, observed, data_source, selected, bar_x_axis,
                       bar_col_partition, show_scaled>>
        /\ Rerun

SelectBarColPartition ==
    \E v \in Range(PARTITION_OPTIONS) :
        /\ page = "main"
        /\ v # bar_col_partition
        /\ bar_col_partition' = v
        /\ UNCHANGED <<page, csv, observed, data_source, selected, bar_x_axis,
                       bar_row_partition, show_scaled>>
        /\ Rerun

ToggleShowScaled ==
    /\ page = "feature"
    /\ show_scaled' = ~show_scaled
    /\ UNCHANGED <<page, csv, observed, data_source, selected, bar_x_axis,
                   bar_row_partition, bar_col_partition>>
    /\ Rerun

SwitchDataSource == \E source \in Range(DATA_SOURCES) : SelectDataSource(source)

(***************************************************************************)
(* The data files the specifications draw from.                            *)
(***************************************************************************)
FilterRecords ==
    {ShapRecord("CL1", "early", "theta", "S1", "T1", 10),
     ShapRecord("CL4", "early", "alpha", "S1", "T2", 20)}

AggRecords ==
    {ShapRecord("CL1", "early", "theta", "S1", "T1", 10),
     ShapRecord("CL1", "late", "theta", "S1", "T2", 20),
     ShapRecord("CL4", "early", "alpha", "S2", "T1", 5)}

HeatmapRecords ==
    {ShapRecord("CL4", "early", "theta", "S1", "T1", 10),
     ShapRecord("CL4", "early", "theta", "S2", "T1", 20),
     ShapRecord("CL2", "pre-stimulus", "alpha", "S1", "T1", 5),
     ShapRecord("CL7", "early", "theta", "S1", "T1", 7),
     ShapRecord("CL2", "post", "alpha", "S1", "T1", 3),
     ShapRecord("CL4", "early", "mu", "S1", "T1", 4)}

CoefRecords ==
    {CoefRecord("f1", "CL1", "early", "theta", "S1", "T1", 2, 10),
     CoefRecord("f1", "CL1", "early", "theta", "S1", "T1", 4, 20),
     CoefRecord("f2", "CL4", "late", "alpha", "S1", "T2", -6, 5)}

\* both SHAP files hold the same records
ShapFiles(records) ==
    [f \in {"DATA_FILE_SHAP_MEAN", "DATA_FILE_SHAP_SUM", "DATA_FILE_COEF"} |->
        IF f = "DATA_FILE_COEF" THEN <<>> ELSE records]

CoefFiles(records) ==
    [f \in {"DATA_FILE_SHAP_MEAN", "DATA_FILE_SHAP_SUM", "DATA_FILE_COEF"} |->
        IF f = "DATA_FILE_COEF" THEN records ELSE <<>>]

(***************************************************************************)
(* Spec: the sidebar filters on the main page and on the heatmap page.     *)
(***************************************************************************)
Init ==
    \E records \in Files(FilterRecords) :
        \/ FirstRun("main", ShapFiles(records), FALSE)
        \/ \E obs \in BOOLEAN : FirstRun("heatmap", ShapFiles(records), obs)

Next ==
    \/ SwitchDataSource
    \/ SelectClusters
    \/ SelectTimePeriods
    \/ SelectFrequencies
    \/ SelectStimuli
    \/ SelectScores

Spec == Init /\ [][Next]_vars

(***************************************************************************)
(* SpecHeatmap: the heatmap page over files that hold keys outside the     *)
(* fixed orders.                                                           *)
(***************************************************************************)
InitHeatmap ==
    \E records \in Files(HeatmapRecords), obs \in BOOLEAN :
        FirstRun("heatmap", ShapFiles(records), obs)

NextHeatmap ==
    \/ SwitchDataSource
    \/ SelectClusters

SpecHeatmap == InitHeatmap /\ [][NextHeatmap]_vars

(***************************************************************************)
(* SpecAgg: the group-by of the main page and of the comparison page.      *)
(***************************************************************************)
InitAgg ==
    \/ \E records \in Files(AggRecords) : FirstRun("main", ShapFiles(records), FALSE)
    \/ \E records \in Files(CoefRecords) : FirstRun("feature", CoefFiles(records), FALSE)

NextAgg ==
    \/ SwitchDataSource
    \/ SelectBarXAxis
    \/ SelectBarRowPartition
    \/ SelectBarColPartition
    \/ ToggleShowScaled
    \/ SelectStimuli

SpecAgg == InitAgg /\ [][NextAgg]_vars

(***************************************************************************)
(* The hierarchical variant of the heatmap page (not among the source      *)
(* files; modelled from the description of the reorder step): Ward linkage *)
(* over the rows and over the columns of the pivoted matrix, the leaf      *)
(* order of each dendrogram taken as the permutation, no check on the      *)
(* number of rows or columns before the linkage.                           *)
(***************************************************************************)
QAdd(a, b) == Q(a.num * b.den + b.num * a.den, a.den * b.den)

RECURSIVE QSum(_)
QSum(s) == IF s = <<>> THEN Q(0, 1) ELSE QAdd(QSum(SubSeq(s, 1, Len(s) - 1)), s[Len(s)])

\* the matrix with its columns as rows
Transpose(values, m) == [j \in 1..m |-> [i \in 1..Len(values) |-> values[i][j]]]

\* one observation as a cluster of its own; leaves are positions from 0
Leaf(X, i) == [id |-> i - 1, leaves |-> <<i - 1>>, size |-> 1, sum |-> X[i]]

\* the merged cluster: the cluster of the lower id is the left branch
Merge(a, b, id) ==
    [id |-> id, leaves |-> a.leaves \o b.leaves, size |-> a.size + b.size,
     sum |-> [k \in 1..Len(a.sum) |-> QAdd(a.sum[k], b.sum[k])]]

\* Ward's criterion: the growth of the within-cluster variance when a and b
\* merge, |a||b| / (|a| + |b|) times the squared distance of the centroids
WardCost(a, b) ==
    LET diff == [k \in 1..Len(a.sum) |->
                    QSub(QDiv(a.sum[k], Q(a.size, 1)), QDiv(b.sum[k], Q(b.size, 1)))]
    IN  QMul(Q(a.size * b.size, a.size + b.size),
             QSum([k \in 1..Len(diff) |-> QMul(diff[k], diff[k])]))

RECURSIVE LeafOrders(_, _)
\* the leaf orders of the dendrograms agglomeration can build from `clusters`:
\* each step merges a pair of least cost; among pairs of equal cost the choice
\* is the implementation's
LeafOrders(clusters, id) ==
    IF Cardinality(clusters) = 1
    THEN {c.leaves : c \in clusters}
    ELSE LET pairs == {p \in clusters \X clusters : p[1].id < p[2].id}
             cost == [p \in pairs |-> WardCost(p[1], p[2])]
             least == {p \in pairs : \A q \in pairs : ~QLess(cost[q], cost[p])}
         IN  UNION {LeafOrders((clusters \ {p[1], p[2]}) \cup {Merge(p[1], p[2], id)}, id + 1) :
                      p \in least}

\* leaves_list(linkage(X, method="ward")): linkage raises on fewer than two
\* observations
linkage_leaves(X) ==
    IF Len(X) < 2
    THEN [status |-> "error", orders |-> {}]
    ELSE [status |-> "ok", orders |-> LeafOrders({Leaf(X, i) : i \in 1..Len(X)}, Len(X))]

\* the matrix with the two orders applied; the pivoted matrix itself is left alone
apply_orders(values, rows, cols) ==
    [i \in 1..Len(rows) |-> [j \in 1..Len(cols) |-> values[rows[i] + 1][cols[j] + 1]]]

\* the reorder step on the pivoted matrix
Reorder ==
    /\ page = "hierarchical"
    /\ status = "pivoted"
    /\ LET rows == linkage_leaves(pivot_df.values)
           cols == IF rows.status = "ok"
                   THEN linkage_leaves(Transpose(pivot_df.values, Len(pivot_df.columns)))
                   ELSE rows
       IN  IF cols.status = "ok"
           THEN \E r \in rows.orders, c \in cols.orders :
                    /\ row_permutation' = r
                    /\ col_permutation' = c
                    /\ reordered_matrix' = apply_orders(pivot_df.values, r, c)
                    /\ status' = "ok"
           ELSE /\ status' = "error"
                /\ UNCHANGED <<row_permutation, col_permutation, reordered_matrix>>
    /\ UNCHANGED <<page, csv, data_source, aggregation_method, df, selected, filtered_df,
                   bar_x_axis, bar_row_partition, bar_col_partition, groupby_columns,
                   bar_data, observed, pivot_df, row_labels, col_labels, row_colors,
                   xaxis, show_scaled, df_all_test, grouped_df>>

\* the pivoted matrices the reorder step is handed: empty, or r x c
Matrices ==
    {<<>>} \cup UNION {[1..r -> [1..c -> {Q(v, 1) : v \in 0..MaxCell}]] :
                         r \in 1..MaxDim, c \in 1..MaxDim}

(***************************************************************************)
(* SpecReorder: the reorder step over every small pivoted matrix.          *)
(***************************************************************************)
InitReorder ==
    \E values \in Matrices :
        /\ page = "hierarchical"
        /\ csv = ShapFiles(<<>>)
        /\ observed = FALSE
        /\ data_source = DATA_SOURCES[1]
        /\ selected = DefaultSelection(<<>>)
        /\ bar_x_axis = None
        /\ bar_row_partition = None
        /\ bar_col_partition = None
        /\ show_scaled = FALSE
        /\ \E o \in {[Unset EXCEPT
                        !.aggregation_method = method_of(DATA_SOURCES[1]),
                        !.pivot_df = [index |-> SubSeq(RowOrder, 1, Len(values)),
                                      columns |-> IF values = <<>> THEN <<>>
                                                  ELSE SubSeq(CLUSTER_ORDER, 1, Len(values[1])),
                                      values |-> values],
                        !.status = "pivoted"]} :
               Ran(o, aggregation_method, df, filtered_df, groupby_columns, bar_data, pivot_df,
                   row_labels, col_labels, row_colors, xaxis, df_all_test, grouped_df,
                   row_permutation, col_permutation, reordered_matrix, status)

NextReorder == Reorder

SpecReorder == InitReorder /\ [][NextReorder]_vars

(***************************************************************************)
(* Properties.  The reductions they compare against are computed here from *)
(* the loaded frame, over sets of row positions.                           *)
(***************************************************************************)
RECURSIVE Total(_, _, _)
\* the sum of column `col` over the rows of `frame` at the positions P
Total(frame, P, col) ==
    IF P = {} THEN 0
    ELSE LET i == CHOOSE i \in P : TRUE
         IN  frame[i][col] + Total(frame, P \ {i}, col)

\* `cell` is the reduction, by `method`, of column `col` over the rows at P
IsReduction(cell, method, frame, P, col) ==
    /\ ~cell.nan
    /\ cell.den > 0
    /\ IF method = "sum"
       THEN cell.num = Total(frame, P, col) * cell.den
       ELSE cell.num * Cardinality(P) = Total(frame, P, col) * cell.den

IsZero(cell) == ~cell.nan /\ cell.num = 0 /\ cell.den > 0

\* the frame the current page loaded
Loaded == IF page = "feature" THEN df_all_test ELSE df

\* positions of the loaded rows that the filter kept (by index label)
KeptRows == {i \in 1..Len(Loaded) : Loaded[i]["index"] \in Range(Index(filtered_df))}

AllSelected == \A col \in Range(FILTER_COLUMNS) : selected[col] = {Loaded[i][col] : i \in 1..Len(Loaded)}

InOrders(row) ==
    /\ row["Time Period"] \in Range(TIME_PERIOD_ORDER)
    /\ row["Frequency"] \in Range(FREQUENCY_ORDER)
    /\ row["Cluster"] \in Range(CLUSTER_ORDER)

\* positions of the kept rows that carry the keys of pivot cell (i, j)
CellRows(i, j) ==
    {k \in KeptRows : /\ Loaded[k]["Time Period"] = pivot_df.index[i][1]
                      /\ Loaded[k]["Frequency"] = pivot_df.index[i][2]
                      /\ Loaded[k]["Cluster"] = pivot_df.columns[j]}

\* positions of the kept rows that carry the group-by key of row n of `table`
KeyRows(table, n, cols) ==
    {k \in KeptRows : \A c \in Range(cols) : Loaded[k][c] = table[n][c]}

\* C1 as stated: a record is kept iff every dimension that has a non-empty
\* selection contains the record's value; an empty selection constrains nothing.
C1_NonEmptySelectionsFilter ==
    page \in {"main", "heatmap"} =>
        \A i \in 1..Len(df) :
            (i \in KeptRows) <=>
                \A col \in Range(FILTER_COLUMNS) :
                    selected[col] # {} => df[i][col] \in selected[col]

\* C1 amended: a record is kept iff, for each of the five dimensions, its value
\* is a member of that dimension's selection (so an empty selection keeps no
\* record); a selection that holds every observed value removes no record.
C1_SelectionsFilter ==
    page \in {"main", "heatmap"} =>
        /\ Len(filtered_df) = Cardinality(KeptRows)
        /\ \A i \in 1..Len(df) :
            (i \in KeptRows) <=>
                \A col \in Range(FILTER_COLUMNS) : df[i][col] \in selected[col]
        /\ \A i \in 1..Len(df) :
            (i \notin KeptRows) =>
                \E col \in Range(FILTER_COLUMNS) :
                    selected[col] # {df[k][col] : k \in 1..Len(df)}

C1_Witness ==
    /\ page = "heatmap"
    /\ Len(df) = 2
    /\ Len(filtered_df) = 1
    /\ selected["Cluster"] = {"CL4"}
    /\ selected["TargetScore"] = {"T2"}
    /\ Cardinality(selected["Frequency"]) = 2

\* C2: with every selection at the full observed domain the filter returns the
\* loaded table itself: the same records in the same order.
C2_DefaultSelectionIsIdentity ==
    (page \in {"main", "feature"} /\ AllSelected) => filtered_df = Loaded

C2_Witness ==
    /\ page = "feature"
    /\ AllSelected
    /\ Len(df_all_test) >= 2
    /\ df_all_test[1]["features"] # df_all_test[2]["features"]
    /\ filtered_df = df_all_test

\* C3 as stated: the reduction applied to SHAP_value by the bar-plot group-by
\* and by the heatmap pivot is the one the data source selects (mean for
\* "Averaged SHAP Values", sum for "Summed SHAP Values").
C3_ReductionFollowsDataSource ==
    /\ page \in {"main", "heatmap"} =>
        aggregation_method = (IF data_source = "Averaged SHAP Values" THEN "mean" ELSE "sum")
    /\ (page = "main" /\ status = "ok") =>
        \A n \in 1..Len(bar_data) :
            IsReduction(bar_data[n]["SHAP_value"], aggregation_method, df,
                        KeyRows(bar_data, n, groupby_columns), "SHAP_value")
    /\ page = "heatmap" =>
        \A i \in 1..Len(pivot_df.index) : \A j \in 1..Len(pivot_df.columns) :
            CellRows(i, j) # {} =>
                IsReduction(pivot_df.values[i][j], aggregation_method, df,
                            CellRows(i, j), "SHAP_value")

\* `table` holds exactly one row for each combination of `cols` that occurs among
\* the kept rows, and that row's `col` is the reduction of the combination's rows
IsGroupedTable(table, cols, method, valueCols) ==
    /\ \A k \in KeptRows : \E n \in 1..Len(table) : k \in KeyRows(table, n, cols)
    /\ \A n \in 1..Len(table) :
        /\ KeyRows(table, n, cols) # {}
        /\ \A m \in 1..Len(table) : (\A c \in Range(cols) : table[m][c] = table[n][c]) => m = n
        /\ \A v \in valueCols :
            IsReduction(table[n][v], method, Loaded, KeyRows(table, n, cols), v)

\* C4 as stated: for every group_by list of 1 to 3 dimensions the aggregation
\* yields one number for each combination of values that occurs (the sum of its
\* records, or that sum over their count for mean) and no other key.
C4_AggregationPerKey ==
    /\ page = "main" =>
        /\ status = "ok"
        /\ Len(groupby_columns) \in 1..3
        /\ IsGroupedTable(bar_data, groupby_columns, "sum", {"SHAP_value"})
    /\ (page = "feature" /\ ~show_scaled) =>
        IsGroupedTable(grouped_df, FEATURE_KEYS, "mean", FEATURE_VALUES)

\* C5 as stated: the heatmap's row labels are the Time Period x Frequency
\* orders and its column labels the Cluster order, keys without a record
\* included and filled with the fill value.
C5_LabelsAreTheFixedOrders ==
    page = "heatmap" =>
        /\ pivot_df.index = RowOrder
        /\ pivot_df.columns = CLUSTER_ORDER
        /\ col_labels = CLUSTER_ORDER
        /\ row_labels = [i \in 1..Len(RowOrder) |-> RowOrder[i][1] \o ", " \o RowOrder[i][2]]
        /\ \A i \in 1..Len(pivot_df.index) : \A j \in 1..Len(pivot_df.columns) :
            CellRows(i, j) = {} => IsZero(pivot_df.values[i][j])

\* C6: every cell of the pivoted matrix is the reduction of the records with its
\* row key and column key, or the fill value 0 when there is none, never NaN;
\* the matrix has one row per distinct row key and one column per distinct
\* column key.
C6_PivotCellsDefined ==
    page = "heatmap" =>
        /\ Len(pivot_df.values) = Cardinality(Range(pivot_df.index))
        /\ Len(pivot_df.index) = Cardinality(Range(pivot_df.index))
        /\ Len(pivot_df.columns) = Cardinality(Range(pivot_df.columns))
        /\ \A i \in 1..Len(pivot_df.values) :
            /\ Len(pivot_df.values[i]) = Cardinality(Range(pivot_df.columns))
            /\ \A j \in 1..Len(pivot_df.values[i]) :
                IF CellRows(i, j) # {}
                THEN IsReduction(pivot_df.values[i][j], aggregation_method, df,
                                 CellRows(i, j), "SHAP_value")
                ELSE IsZero(pivot_df.values[i][j])

C6_Witness ==
    /\ page = "heatmap"
    /\ aggregation_method = "mean"
    /\ \E i \in 1..Len(pivot_df.index) : \E j \in 1..Len(pivot_df.columns) :
        CellRows(i, j) = {}
    /\ \E i \in 1..Len(pivot_df.index) : \E j \in 1..Len(pivot_df.columns) :
        /\ CellRows(i, j) # {}
        /\ pivot_df.values[i][j] = Q(10, 1)

\* C7: records whose Time Period, Frequency or Cluster is outside the fixed
\* orders raise no error and reach no cell of the matrix, while every record
\* whose three keys are in the orders is reduced into its cell.
C7_KeysOutsideOrdersDropped ==
    page = "heatmap" =>
        /\ status = "ok"
        /\ Range(pivot_df.index) \subseteq Range(RowOrder)
        /\ Range(pivot_df.columns) \subseteq Range(CLUSTER_ORDER)
        /\ \A k \in KeptRows :
            InOrders(df[k]) =>
                \E i \in 1..Len(pivot_df.index) : \E j \in 1..Len(pivot_df.columns) :
                    /\ k \in CellRows(i, j)
                    /\ IsReduction(pivot_df.values[i][j], aggregation_method, df,
                                   CellRows(i, j), "SHAP_value")
        /\ \A i \in 1..Len(pivot_df.index) : \A j \in 1..Len(pivot_df.columns) :
            /\ \A k \in CellRows(i, j) : InOrders(df[k])
            /\ IF CellRows(i, j) # {}
               THEN IsReduction(pivot_df.values[i][j], aggregation_method, df,
                                CellRows(i, j), "SHAP_value")
               ELSE IsZero(pivot_df.values[i][j])

C7_Witness ==
    /\ page = "heatmap"
    /\ status = "ok"
    /\ \E k \in KeptRows : ~InOrders(df[k])
    /\ \E k \in KeptRows : InOrders(df[k])
    /\ Len(pivot_df.index) = 1

\* C8 as stated: when the filter leaves no record the run does not fail, the
\* group-by and the pivot return an empty result (a matrix of 0 rows or 0
\* columns), and the labels and row colours are derived from it.
C8_EmptyResultGivesEmptyMatrix ==
    (page \in {"main", "heatmap"} /\ filtered_df = <<>>) =>
        /\ status = "ok"
        /\ page = "main" => bar_data = <<>>
        /\ page = "heatmap" =>
            /\ Len(pivot_df.index) = 0 \/ Len(pivot_df.columns) = 0
            /\ Len(row_labels) = Len(pivot_df.index)
            /\ Len(row_colors) = Len(pivot_df.index)
            /\ col_labels = pivot_df.columns

\* C8 amended: when the filter leaves no record the run does not fail; the
\* group-by returns an empty table; the pivot returns the empty matrix, except
\* that under the sum reduction with unobserved categories kept (observed=False)
\* it returns the full 15 x 6 matrix of the fixed orders with every cell 0; the
\* labels and row colours are derived from that matrix.
C8_EmptyResultTolerated ==
    (page \in {"main", "heatmap"} /\ filtered_df = <<>>) =>
        /\ status = "ok"
        /\ page = "main" => bar_data = <<>>
        /\ page = "heatmap" =>
            /\ IF aggregation_method = "sum" /\ ~observed
               THEN /\ pivot_df.index = RowOrder
                    /\ pivot_df.columns = CLUSTER_ORDER
                    /\ \A i \in 1..Len(RowOrder) : \A j \in 1..Len(CLUSTER_ORDER) :
                        IsZero(pivot_df.values[i][j])
               ELSE pivot_df = EmptyPivot
            /\ Len(row_labels) = Len(pivot_df.index)
            /\ Len(row_colors) = Len(pivot_df.index)
            /\ col_labels = pivot_df.columns

C8_Witness ==
    /\ page = "heatmap"
    /\ df # <<>>
    /\ filtered_df = <<>>
    /\ aggregation_method = "sum"
    /\ ~observed
    /\ Len(row_colors) = Len(RowOrder)

\* the display label the page documents for each cluster
ClusterLabel(c) ==
    CASE c = "CL1" -> "Left Frontal (CL1)"
      [] c = "CL4" -> "Right Frontal (CL4)"
      [] c = "CL2" -> "Left Central (CL2)"
      [] c = "CL5" -> "Right Central (CL5)"
      [] c = "CL3" -> "Left Posterior (CL3)"
      [] c = "CL6" -> "Right Posterior (CL6)"

\* C10 as stated: every column of the heatmap is shown under the display label
\* of its own cluster, also when fewer than six columns remain, and every row's
\* colour is the colour of its own time period.
C10_LabelsFollowColumns ==
    (page = "heatmap" /\ status = "ok") =>
        /\ \A j \in 1..Len(xaxis.tickvals) :
            /\ xaxis.tickvals[j] = pivot_df.columns[j]
            /\ xaxis.ticktext[j] = ClusterLabel(pivot_df.columns[j])
        /\ \A i \in 1..Len(pivot_df.index) :
            row_colors[i] = time_colors[pivot_df.index[i][1]]

IsPermutation(order, n) ==
    /\ Len(order) = n
    /\ \A k \in 0..(n - 1) : \E i \in 1..n : order[i] = k

Identity(n) == [i \in 1..n |-> i - 1]

\* C9 as stated: the reorder step returns a row permutation that is a bijection
\* on [0, n) and a column permutation that is a bijection on [0, m); on an axis
\* of fewer than 2 entries, the empty matrix included, the permutation is the
\* identity and nothing is raised; the pivoted matrix is not changed and the
\* returned matrix is the pivoted one under the two permutations.
C9_ReorderPermutations ==
    (page = "hierarchical" /\ status # "pivoted") =>
        LET n == Len(pivot_df.index)
            m == Len(pivot_df.columns)
        IN  /\ status = "ok"
            /\ IsPermutation(row_permutation, n)
            /\ IsPermutation(col_permutation, m)
            /\ n < 2 => row_permutation = Identity(n)
            /\ m < 2 => col_permutation = Identity(m)
            /\ Len(pivot_df.values) = n
            /\ reordered_matrix = apply_orders(pivot_df.values, row_permutation, col_permutation)

\* C9 on the matrices the linkage accepts (at least 2 rows and 2 columns)
C9_ReorderOfTwoOrMore ==
    (page = "hierarchical" /\ status # "pivoted"
       /\ Len(pivot_df.index) >= 2 /\ Len(pivot_df.columns) >= 2) =>
        /\ status = "ok"
        /\ IsPermutation(row_permutation, Len(pivot_df.index))
        /\ IsPermutation(col_permutation, Len(pivot_df.columns))
        /\ reordered_matrix = apply_orders(pivot_df.values, row_permutation, col_permutation)

====
